---- MODULE Spec2Model ----
(***************************************************************************)
(* Model of the code-generation / validation / execution pipeline of the   *)
(* "Raw Data Preprocessor" Streamlit application:                          *)
(*   utils/agents.py   extraction, validation, agent2_generate,            *)
(*                     agent3_qa, agent4_master_clean                      *)
(*   utils/helpers.py  get_client, write_script, run_script, cleanup_files *)
(*   pages/*.py        the page scripts and their button handlers          *)
(*                                                                         *)
(* Texts (service responses, program texts) are sequences of lexical       *)
(* tokens.  Each token stands for a concrete piece of text:                *)
(*   "F"  a code fence, three backticks                                    *)
(*   "N"  a newline                                                        *)
(*   "S"  a space                                                          *)
(*   "K"  a statement-start the fallback pattern recognises: "#"           *)
(*   "X"  a well-formed simple statement: "pass;"                          *)
(*   "B"  an unmatched opening bracket: "("                                *)
(***************************************************************************)
EXTENDS Integers, Sequences, FiniteSets, TLC

\* ------------------------------------------------------------------ bounds
MaxLen == 3         \* longest service response, in tokens
MaxIds == 2         \* dataset identifiers uuid4 mints in one behaviour
MaxAttempts == 2    \* button presses that start a cleaning or master attempt
MaxRows == 12       \* rows of the longest column that is profiled
MaxCols == 2        \* columns of the widest table
SmallRows == 2      \* rows of the tables that have several columns
MaxText == 5        \* longest text _extract_code_from_text is called with

\* df[c].dropna().astype(str).head(10)
SampleCap == 10

Tokens == {"F", "N", "S", "K", "X", "B"}

SeqsUpTo(S, n) == UNION {[1..k -> S] : k \in 0..n}

Texts == SeqsUpTo(Tokens, MaxLen)

Min(S) == CHOOSE x \in S : \A y \in S : x <= y

\* ------------------------------------------------- str methods (Python)
IsSpace(c) == c \in {"S", "N"}

\* str.strip(): drop leading and trailing whitespace
Strip(t) ==
    LET keep == {i \in 1..Len(t) : ~IsSpace(t[i])}
    IN  IF keep = {} THEN <<>>
        ELSE SubSeq(t, Min(keep), CHOOSE j \in keep : \A k \in keep : k <= j)

\* str.splitlines(): the index at which each line starts
LineStarts(t) == {1} \cup {i + 1 : i \in {j \in 1..Len(t) : t[j] = "N"}}

\* index of the last token of the line starting at s (s - 1 for an empty line)
LineEnd(t, s) ==
    LET nl == {i \in s..Len(t) : t[i] = "N"}
    IN  IF nl = {} THEN Len(t) ELSE Min(nl) - 1

\* ------------------------------------------------ _extract_code_from_text
\* number of whitespace tokens directly after position i: the greedy \s*
SpaceRun(t, i) ==
    LET stop == {j \in (i + 1)..Len(t) : ~IsSpace(t[j])}
    IN  IF stop = {} THEN Len(t) - i ELSE Min(stop) - i - 1

\* closing fences that leave the lazy group [\s\S]+? at least one token,
\* with the group starting at g
Closers(t, g) == {e \in (g + 1)..Len(t) : t[e] = "F"}

\* re.search succeeds with the opening fence at position i
FenceAt(t, i) ==
    /\ t[i] = "F"
    /\ LET g == i + 1 + SpaceRun(t, i)
       IN  \/ Closers(t, g) # {}
           \/ (SpaceRun(t, i) >= 1 /\ g <= Len(t) /\ t[g] = "F")

\* m.group(1) for the match with the opening fence at position i: \s* takes
\* the whole whitespace run; when no closing fence is left for a non-empty
\* group it gives one whitespace token back, which becomes the group
FenceGroup(t, i) ==
    LET g == i + 1 + SpaceRun(t, i)
    IN  IF Closers(t, g) # {} THEN SubSeq(t, g, Min(Closers(t, g)) - 1)
        ELSE <<t[g - 1]>>

\* the line starting at s matches ^\s*(import |from |...|#|@|...)
IsStatementStart(t, s) ==
    LET e == LineEnd(t, s)
        ns == {j \in s..e : t[j] # "S"}
    IN  ns # {} /\ t[Min(ns)] = "K"

_extract_code_from_text(text) ==
    LET fences == {i \in 1..Len(text) : FenceAt(text, i)}
        starts == {s \in LineStarts(text) : s <= Len(text) /\ IsStatementStart(text, s)}
    IN  IF fences # {} THEN Strip(FenceGroup(text, Min(fences)))
        ELSE IF starts # {} THEN Strip(SubSeq(text, Min(starts), Len(text)))
        ELSE Strip(text)

\* ------------------------------------------------------- _is_valid_python
\* the part of the line starting at s that is not a comment
CodeEnd(t, s) ==
    LET e == LineEnd(t, s)
        ks == {j \in s..e : t[j] = "K"}
    IN  IF ks = {} THEN e ELSE Min(ks) - 1

\* ast.parse accepts the line: no backtick, no unmatched bracket, and a
\* statement is not indented (every statement is at module level)
LineParses(t, s) ==
    LET e == CodeEnd(t, s)
    IN  /\ \A j \in s..e : t[j] \notin {"F", "B"}
        /\ (\E j \in s..e : t[j] = "X") => t[s] # "S"

AstParses(code) == \A s \in LineStarts(code) : LineParses(code, s)

\* returns (ok, err); err is "" exactly when ok
_is_valid_python(code) ==
    IF AstParses(code) THEN [ok |-> TRUE, err |-> ""]
    ELSE [ok |-> FALSE, err |-> "SyntaxError"]

\* -------------------------------------------------------- textwrap.dedent
LineOf(t, i) == CHOOSE s \in LineStarts(t) : s <= i /\ i <= LineEnd(t, s) + 1

IsBlankLine(t, s) == \A j \in s..LineEnd(t, s) : t[j] = "S"

Indent(t, s) ==
    LET ns == {j \in s..LineEnd(t, s) : t[j] # "S"}
    IN  Min(ns) - s

\* the common margin of the lines that are not blank
Margin(t) ==
    LET ls == {s \in LineStarts(t) : ~IsBlankLine(t, s)}
    IN  IF ls = {} THEN 0 ELSE Min({Indent(t, s) : s \in ls})

Dedent(t) ==
    LET m == Margin(t)
        drop(i) == /\ t[i] = "S"
                   /\ \/ IsBlankLine(t, LineOf(t, i))
                      \/ i - LineOf(t, i) < m
        out[i \in 0..Len(t)] ==
            IF i = 0 THEN <<>>
            ELSE IF drop(i) THEN out[i - 1] ELSE Append(out[i - 1], t[i])
    IN  out[Len(t)]

\* ------------------------------------------------------- tabular values
\* A table is a sequence of columns, a column the sequence of its cells, one
\* per row; a cell is a value or missing (NaN).
Cells == {"v", "null"}

Columns(n) == [1..n -> Cells]

TablesOf(k, n) == [1..k -> Columns(n)]

\* len(df) and len(df.columns)
Rows(df) == Len(df[1])

NumCols(df) == Len(df)

\* the uploaded files a user can choose, and the table each parses to
Files == {"fileA", "fileB"}

FileTable(f) == IF f = "fileA" THEN <<(<<"v", "null">>)>>
                ELSE <<(<<"v">>), (<<"null">>)>>

\* the table a generated script saves
WrittenTable == <<(<<"v">>)>>

\* read_any(path), given what the path holds: an uploaded file, a table a
\* script wrote, or a table given cell by cell
read_any(content) ==
    CASE content[1] = "file" -> FileTable(content[2])
      [] content[1] = "data" -> content[2]
      [] OTHER -> WrittenTable

\* ------------------------------------------------------------- get_client
\* raises ValueError when OPENAI_API_KEY is not set
get_client(key) ==
    IF key THEN [raised |-> FALSE] ELSE [raised |-> TRUE]

\* ------------------------------------------------------ the artifact store
\* artifact paths: the kind of artifact and the identifier in its name
\*   uploads/{fid}{ext}                     cleaned/cleaned_{fid}.csv
\*   cleaned/final_{fid}.csv                scripts/{fid}/clean_{fid}.py
\*   scripts/{fid}_final/clean_{fid}_final.py
\*   reports/{fid}/report_{fid}.md
\* uuid4 mints the identifiers "1", "2", ... in turn
Uuid(n) == ToString(n)

Ids == {Uuid(n) : n \in 1..MaxIds}

UploadPath(fid) == <<"upload", fid>>

CleanedPath(fid) == <<"cleaned", fid>>

FinalPath(fid) == <<"final", fid>>

ReportPath(fid) == <<"report", fid>>

\* write_script(code, name) writes scripts/{name}/clean_{name}.py; name is a
\* file_id, or a file_id with "_final" appended
Plain(fid) == <<fid, "">>

WithFinal(fid) == <<fid, "_final">>

ScriptPath(name) == IF name[2] = "" THEN <<"script", name[1]>>
                    ELSE <<"script_final", name[1]>>

Kinds == {"upload", "cleaned", "final", "script", "script_final", "report"}

Paths == Kinds \X Ids

\* what a path that does not exist holds; the contents of a path that does
\* are <<"file", name>>, <<"table", attempt>>, <<"data", table>>,
\* <<"code", text>> or <<"report", text>>
Absent == <<>>

\* Python's None: of a string, of a path
None == "None"

NoPath == <<>>

Exists(d, path) == path \in Paths /\ d[path] # Absent

\* os.remove / shutil.rmtree of the given paths
Remove(d, ps) == [q \in Paths |-> IF q \in ps THEN Absent ELSE d[q]]

Write(d, path, content) == [d EXCEPT ![path] = content]

\* what the generation service can answer: a text, or a failure that
\* client.chat.completions.create raises
ServiceError == <<"E">>

Replies == Texts \cup {ServiceError}

\* -------------------------------------------------------- agent2_generate
\* the value a call hands to its caller: an exception, or the pair
\* (code, out_path)
Raise(e) == [kind |-> "raise", err |-> e]

Return2(code, out_path) == [kind |-> "return", code |-> code, out_path |-> out_path]

\* lines 144-149: the first response is extracted and validated; valid code
\* is returned dedented, invalid code sends the retry request
Agent2First(reply, fid) ==
    IF reply = ServiceError
    THEN [pc |-> "done", sent |-> 0, raw |-> <<>>, first |-> "none",
          ret |-> Raise("ServiceError")]
    ELSE LET raw_code == _extract_code_from_text(reply)
             v == _is_valid_python(raw_code)
         IN  IF v.ok
             THEN [pc |-> "done", sent |-> 0, raw |-> raw_code, first |-> "valid",
                   ret |-> Return2(Dedent(raw_code), CleanedPath(fid))]
             ELSE [pc |-> "wait2", sent |-> 1, raw |-> raw_code, first |-> "invalid",
                   ret |-> [kind |-> "none"]]

\* a variant that keeps asking while the extracted code does not parse
Agent2SecondLoop(reply, fid) ==
    IF reply = ServiceError
    THEN [pc |-> "done", sent |-> 0, raw |-> <<>>, ret |-> Raise("ServiceError")]
    ELSE LET raw_code == _extract_code_from_text(reply)
         IN  IF AstParses(raw_code)
             THEN [pc |-> "done", sent |-> 0, raw |-> raw_code,
                   ret |-> Return2(Dedent(raw_code), CleanedPath(fid))]
             ELSE [pc |-> "wait2", sent |-> 1, raw |-> raw_code,
                   ret |-> [kind |-> "none"]]

\* lines 157-165: the retry response is extracted and returned dedented;
\* it is not validated
Agent2Second(reply, fid) ==
    IF reply = ServiceError
    THEN [pc |-> "done", sent |-> 0, raw |-> <<>>, ret |-> Raise("ServiceError")]
    ELSE LET raw_code == _extract_code_from_text(reply)
         IN  [pc |-> "done", sent |-> 0, raw |-> raw_code,
              ret |-> Return2(Dedent(raw_code), CleanedPath(fid))]

\* the whole call, given what the service answers to each request:
\* [ret, requests, validated]; validated holds the texts for which
\* _is_valid_python returned ok
agent2_generate(key, reply1, reply2, fid) ==
    IF get_client(key).raised
    THEN [ret |-> Raise("ValueError"), requests |-> 0, validated |-> {}]
    ELSE LET a == Agent2First(reply1, fid)
         IN  IF a.pc = "done"
             THEN [ret |-> a.ret, requests |-> 1,
                   validated |-> IF a.first = "valid" THEN {a.raw} ELSE {}]
             ELSE [ret |-> Agent2Second(reply2, fid).ret, requests |-> 1 + a.sent,
                   validated |-> {}]


\* ------------------------------------------------------------ helpers.py
\* cleanup_files(file_id): the upload, cleaned_{id}.csv, scripts/{id}/ and
\* reports/{id}/
cleanup_files(d, fid) ==
    Remove(d, {UploadPath(fid), CleanedPath(fid), ScriptPath(Plain(fid)),
               ReportPath(fid)})

\* write_script(code, file_id): [disk, path]
write_script(d, code, name) ==
    [disk |-> Write(d, ScriptPath(name), <<"code", code>>), path |-> ScriptPath(name)]

\* What subprocess.run(["python", path], timeout=...) can do: the process
\* exits with a status, is killed at the timeout, or cannot be launched.
\* wrote: the program saved a table to its out_path before it ended.
Procs ==
    [kind : {"exit"}, rc : {0, 1}, wrote : BOOLEAN]
        \cup [kind : {"timeout"}, rc : {-1}, wrote : BOOLEAN]
        \cup [kind : {"launch_error"}, rc : {-1}, wrote : {FALSE}]

NoProc == [kind |-> "none", rc |-> -1, wrote |-> FALSE]

\* the text has a statement that is executed (one outside a comment)
HasStatement(code) ==
    \E s \in LineStarts(code) : \E j \in s..CodeEnd(code, s) : code[j] = "X"

\* the interpreter rejects a text that does not parse before running any of
\* it, and a text without statements does nothing
CanBehave(code, p) ==
    \/ p.kind = "launch_error"
    \/ ~AstParses(code) /\ p.kind = "exit" /\ p.rc = 1 /\ ~p.wrote
    \/ AstParses(code) /\ ~HasStatement(code) /\ p.kind = "exit" /\ p.rc = 0 /\ ~p.wrote
    \/ AstParses(code) /\ HasStatement(code)

\* a variant without the handler for the other exceptions
run_script_no_except(p) ==
    CASE p.kind = "exit" ->
            [raised |-> FALSE, c |-> p.rc, o |-> "stdout", e |-> "stderr"]
      [] p.kind = "timeout" ->
            [raised |-> FALSE, c |-> 1, o |-> "", e |-> "Script timed out"]
      [] OTHER ->
            [raised |-> TRUE, c |-> -1, o |-> "", e |-> ""]

\* run_script(path, timeout): (returncode, stdout, stderr), given what the
\* process did
run_script(p) ==
    CASE p.kind = "exit" ->
            [raised |-> FALSE, c |-> p.rc, o |-> "stdout", e |-> "stderr"]
      [] p.kind = "timeout" ->
            [raised |-> FALSE, c |-> 1, o |-> "", e |-> "Script timed out"]
      [] OTHER ->
            [raised |-> FALSE, c |-> 1, o |-> "", e |-> "Error running script"]

NoOutcome == [raised |-> FALSE, c |-> -1, o |-> "", e |-> ""]

\* what the process leaves on disk: a table at out_path, tagged with the
\* attempt that wrote it
ProcessEffect(d, p, out_path, tag) ==
    IF p.wrote THEN Write(d, out_path, <<"table", tag>>) ELSE d

\* ---------------------------------------------------- agent4_master_clean
\* lines 214-260: the response text is returned as the code, unextracted
\* and unvalidated, with final_{id}.csv as out_path
agent4_master_clean(key, reply, fid) ==
    IF get_client(key).raised
    THEN [ret |-> Raise("ValueError"), requests |-> 0, validated |-> {}]
    ELSE IF reply = ServiceError
    THEN [ret |-> Raise("ServiceError"), requests |-> 1, validated |-> {}]
    ELSE [ret |-> Return2(reply, FinalPath(fid)), requests |-> 1, validated |-> {}]

\* --------------------------------------------------------- agent1_analyze
\* s[:n]
Take(s, n) == SubSeq(s, 1, Min({Len(s), n}))

\* a variant that counts the sampled values as the non-null values
ColumnProfileOfSample(col) ==
    LET IsValue(c) == c # "null"
        col_data == SelectSeq(col, IsValue)
        sample_values == Take(col_data, SampleCap)
    IN  [nulls |-> Cardinality({i \in 1..Len(col) : col[i] = "null"}),
         non_nulls |-> Len(sample_values),
         sample_values |-> sample_values]

\* lines 38-57: the Column Profile of one column: isna().sum(),
\* notna().sum() and the first ten of dropna()
ColumnProfile(col) ==
    LET IsValue(c) == c # "null"
        col_data == SelectSeq(col, IsValue)
        sample_values == Take(col_data, SampleCap)
    IN  [nulls |-> Cardinality({i \in 1..Len(col) : col[i] = "null"}),
         non_nulls |-> Cardinality({i \in 1..Len(col) : col[i] # "null"}),
         sample_values |-> sample_values]

\* what the profiling service can answer in JSON mode: the request raises,
\* the text is not JSON, the text is the empty object, the text is a
\* document with issues and a mapping
AnalysisReplies == {"raises", "not json", "{}", "document"}

\* the values st.session_state.analysis can take: the parsed document, the
\* empty object, the default result {"issues": [], "mapping": {...}}
AnalysisValues == {"parsed", "empty", "default"}

\* a variant without the try block around the request
agent1_analyze_no_except(df, key, reply) ==
    IF get_client(key).raised
    THEN [ret |-> Raise("ValueError"), requests |-> 0, summary |-> <<>>]
    ELSE IF reply = "raises"
    THEN [ret |-> Raise("ServiceError"), requests |-> 1,
          summary |-> [c \in 1..NumCols(df) |-> ColumnProfile(df[c])]]
    ELSE IF reply = "not json"
    THEN [ret |-> Raise("JSONDecodeError"), requests |-> 1,
          summary |-> [c \in 1..NumCols(df) |-> ColumnProfile(df[c])]]
    ELSE [ret |-> [kind |-> "return",
                   val |-> IF reply = "{}" THEN "empty" ELSE "parsed"],
          requests |-> 1,
          summary |-> [c \in 1..NumCols(df) |-> ColumnProfile(df[c])]]

\* a variant that creates the client inside the try block
agent1_analyze_client_in_try(df, key, reply) ==
    IF get_client(key).raised
    THEN [ret |-> [kind |-> "return", val |-> "default"], requests |-> 0,
          summary |-> [c \in 1..NumCols(df) |-> ColumnProfile(df[c])]]
    ELSE [ret |-> [kind |-> "return",
                   val |-> CASE reply = "document" -> "parsed"
                             [] reply = "{}" -> "empty"
                             [] OTHER -> "default"],
          requests |-> 1,
          summary |-> [c \in 1..NumCols(df) |-> ColumnProfile(df[c])]]

\* lines 32-94: [ret, requests, summary].  get_client raises when the
\* credential is absent; the profile of every column is built and sent; a
\* request that raises or a response json.loads rejects gives the default
\* result; otherwise the parsed document, which may be the empty object
agent1_analyze(df, key, reply) ==
    IF get_client(key).raised
    THEN [ret |-> Raise("ValueError"), requests |-> 0, summary |-> <<>>]
    ELSE [ret |-> [kind |-> "return",
                   val |-> CASE reply = "document" -> "parsed"
                             [] reply = "{}" -> "empty"
                             [] OTHER -> "default"],
          requests |-> 1,
          summary |-> [c \in 1..NumCols(df) |-> ColumnProfile(df[c])]]

\* truth value of st.session_state.analysis
NoAnalysis == [of |-> None, val |-> None]

Truthy(a) == a # NoAnalysis /\ a.val # "empty"

\* --------------------------------------------------------------- agent3_qa
\* lines 179-183: the payload sent to the summarization service
QAContext(src_df, clean_df) ==
    LET before == [rows |-> Rows(src_df), cols |-> NumCols(src_df)]
        after == [rows |-> Rows(clean_df), cols |-> NumCols(clean_df)]
    IN  [before |-> before, after |-> after,
         delta |-> [row_delta |-> after.rows - before.rows,
                    col_delta |-> after.cols - before.cols]]

NoContext == [before |-> [rows |-> 0, cols |-> 0], after |-> [rows |-> 0, cols |-> 0],
              delta |-> [row_delta |-> 0, col_delta |-> 0]]

\* a variant that asks for the report before it looks for the files
agent3_qa_late_check(d, key, reply, src_path, cleaned_path, fid) ==
    IF get_client(key).raised
    THEN [ret |-> Raise("ValueError"), disk |-> d, requests |-> 0, read |-> Absent,
          ctx |-> NoContext]
    ELSE IF reply = ServiceError
    THEN [ret |-> Raise("ServiceError"), disk |-> d, requests |-> 1,
          read |-> Absent, ctx |-> NoContext]
    ELSE IF ~Exists(d, src_path) \/ ~Exists(d, cleaned_path)
    THEN [ret |-> Raise("FileNotFoundError"),
          disk |-> Write(d, ReportPath(fid), <<"report", reply>>),
          requests |-> 1, read |-> Absent, ctx |-> NoContext]
    ELSE [ret |-> [kind |-> "return", report |-> reply, rpath |-> ReportPath(fid)],
          disk |-> Write(d, ReportPath(fid), <<"report", reply>>), requests |-> 1,
          read |-> d[cleaned_path],
          ctx |-> QAContext(read_any(d[src_path]), read_any(d[cleaned_path]))]

\* a variant that subtracts the other way round
agent3_qa_swapped(d, key, reply, src_path, cleaned_path, fid) ==
    IF get_client(key).raised
    THEN [ret |-> Raise("ValueError"), disk |-> d, requests |-> 0, read |-> Absent,
          ctx |-> NoContext]
    ELSE IF ~Exists(d, src_path) \/ ~Exists(d, cleaned_path)
    THEN [ret |-> Raise("FileNotFoundError"), disk |-> d, requests |-> 0,
          read |-> Absent, ctx |-> NoContext]
    ELSE IF reply = ServiceError
    THEN [ret |-> Raise("ServiceError"), disk |-> d, requests |-> 1,
          read |-> d[cleaned_path],
          ctx |-> QAContext(read_any(d[cleaned_path]), read_any(d[src_path]))]
    ELSE [ret |-> [kind |-> "return", report |-> reply, rpath |-> ReportPath(fid)],
          disk |-> Write(d, ReportPath(fid), <<"report", reply>>), requests |-> 1,
          read |-> d[cleaned_path],
          ctx |-> QAContext(read_any(d[cleaned_path]), read_any(d[src_path]))]

\* lines 170-209: [ret, disk, requests, read, ctx]; read is the cleaned
\* table the metrics were computed from, ctx the payload of the request
agent3_qa(d, key, reply, src_path, cleaned_path, fid) ==
    IF get_client(key).raised
    THEN [ret |-> Raise("ValueError"), disk |-> d, requests |-> 0, read |-> Absent,
          ctx |-> NoContext]
    ELSE IF ~Exists(d, src_path) \/ ~Exists(d, cleaned_path)
    THEN [ret |-> Raise("FileNotFoundError"), disk |-> d, requests |-> 0,
          read |-> Absent, ctx |-> NoContext]
    ELSE IF reply = ServiceError
    THEN [ret |-> Raise("ServiceError"), disk |-> d, requests |-> 1,
          read |-> d[cleaned_path],
          ctx |-> QAContext(read_any(d[src_path]), read_any(d[cleaned_path]))]
    ELSE [ret |-> [kind |-> "return", report |-> reply, rpath |-> ReportPath(fid)],
          disk |-> Write(d, ReportPath(fid), <<"report", reply>>), requests |-> 1,
          read |-> d[cleaned_path],
          ctx |-> QAContext(read_any(d[src_path]), read_any(d[cleaned_path]))]

\* ------------------------------------------------------------ agent2_clean
\* The cleaning orchestrator that pages/clean_data.py calls.  It generates
\* the program with agent2_generate, ends the attempt without executing
\* anything when the program is invalid, otherwise writes the script, runs
\* it with run_script and commits only when the exit status is zero and the
\* table is at out_path; every other end of the attempt is raised.
\*   [ret, disk, requests, validated, executed, outcome]
\* the orchestration once the program has been generated (g)
OrchestrateClean(d, g, p, fid, tag) ==
    IF g.ret.kind = "raise"
    THEN [ret |-> g.ret, disk |-> d, requests |-> g.requests,
          validated |-> g.validated, executed |-> <<>>, outcome |-> NoOutcome]
    ELSE IF ~_is_valid_python(g.ret.code).ok
    THEN [ret |-> Raise("SyntaxInvalid"), disk |-> d,
          requests |-> g.requests, validated |-> g.validated,
          executed |-> <<>>, outcome |-> NoOutcome]
    ELSE LET d2 == ProcessEffect(write_script(d, g.ret.code, Plain(fid)).disk,
                                 p, g.ret.out_path, tag)
         IN  IF run_script(p).c = 0 /\ Exists(d2, g.ret.out_path)
             THEN [ret |-> [kind |-> "return", code |-> g.ret.code,
                            script_path |-> ScriptPath(Plain(fid)),
                            cleaned_path |-> g.ret.out_path],
                   disk |-> d2, requests |-> g.requests,
                   validated |-> g.validated \cup {g.ret.code},
                   executed |-> <<g.ret.code>>, outcome |-> run_script(p)]
             ELSE [ret |-> Raise("ExecutionFailure"), disk |-> d2,
                   requests |-> g.requests,
                   validated |-> g.validated \cup {g.ret.code},
                   executed |-> <<g.ret.code>>, outcome |-> run_script(p)]

agent2_clean(d, key, reply1, reply2, p, fid, tag) ==
    OrchestrateClean(d, agent2_generate(key, reply1, reply2, fid), p, fid, tag)

\* ======================================================================
\* State
\* ======================================================================
VARIABLES
    \* one caller of agent2_generate and the request it has in flight
    gpc,      \* where the call is: "idle", "wait1", "wait2", "done"
    greqs,    \* generation-service requests the current call has sent
    gfirst,   \* what the validator said of the first extraction
    graw,     \* the local raw_code
    gret,     \* what the call handed to its caller
    \* the Streamlit session and the artifact store
    ss,        \* st.session_state
    disk,      \* what each artifact path holds
    uploader,  \* the file held by the st.file_uploader widget
    page,      \* the page on display
    buttons,   \* the buttons the last run of the page rendered
    nextId,    \* the next identifier uuid4 mints
    attempt,   \* cleaning and master attempts started so far
    committed, \* per path, the attempt whose table was last committed there
    last,      \* the last run of a page script: what it did and showed
    \* the functions of utils/agents.py called on their own
    unit       \* the last call: the function, its inputs and what it gave

gvars == <<gpc, greqs, gfirst, graw, gret>>

avars == <<ss, disk, uploader, page, buttons, nextId, attempt, committed, last>>

vars == <<gpc, greqs, gfirst, graw, gret,
          ss, disk, uploader, page, buttons, nextId, attempt, committed, last,
          unit>>

GenFid == Uuid(1)

\* the responses the pages are run with: a program, a text that does not
\* parse, a program inside a fenced block, an empty response
AppTexts == {<<"X">>, <<"B">>, <<"F", "X", "F">>, <<>>}

AppReplies == AppTexts \cup {ServiceError}

\* what the service answers to a request; a request that is not sent has
\* no answer to choose
AskedIf(sent) == IF sent THEN AppReplies ELSE {ServiceError}

\* the process that ran the executed texts behaved as such a text can; when
\* nothing was executed there was no process
Behaves(executed, p) ==
    IF executed = <<>> THEN p = NoProc
    ELSE p \in Procs /\ \A i \in 1..Len(executed) : CanBehave(executed[i], p)

\* the record of a run of a page script
\*   page, event   the page and how its run ended: "render", "warn",
\*                 "success", "failed" (the handler's own failure message),
\*                 "error" (an exception caught and shown)
\*   proc, outcome what the subprocess did and what run_script returned
\*   executed      the texts handed to run_script, in order
\*   validated     the texts for which _is_valid_python returned ok
\*   requests      the generation-service requests sent
\*   read          the cleaned table a downstream stage read
\*   heard         what the profiling service answered to Run Analysis
\*   shown         the diagnostic texts the handler displayed, each with
\*                 what it is: ("stdout", o), ("stderr", e), ("exception", e)
Ran(pg, ev, p, o, ex, va, rq, rd) ==
    [page |-> pg, event |-> ev, proc |-> p, outcome |-> o, executed |-> ex,
     validated |-> va, requests |-> rq, read |-> rd, heard |-> None,
     shown |-> {}]

Rendered(pg, ev) == Ran(pg, ev, NoProc, NoOutcome, <<>>, {}, 0, Absent)

GInit ==
    /\ gpc = "idle"
    /\ greqs = 0
    /\ gfirst = "none"
    /\ graw = <<>>
    /\ gret = [kind |-> "none"]

\* a new session: no key of st.session_state is set, the store is empty
AInit ==
    /\ ss = [file_id |-> None, src_path |-> NoPath, analysis |-> NoAnalysis,
             preview_data |-> None, script_path |-> NoPath, cleaned_out |-> NoPath,
             clean_out |-> NoPath, final_out |-> NoPath]
    /\ disk = [q \in Paths |-> Absent]
    /\ uploader = None
    /\ page = "home"
    /\ buttons = {}
    /\ nextId = 1
    /\ attempt = 0
    /\ committed = [q \in Paths |-> Absent]
    /\ last = Rendered("home", "render")

\* a session in which a cleaning attempt for the current upload committed
\* and its table was handed to the master pass
AInitMaster ==
    /\ ss = [file_id |-> Uuid(1), src_path |-> UploadPath(Uuid(1)),
             analysis |-> [of |-> Uuid(1), val |-> "parsed"],
             preview_data |-> "fileA", script_path |-> ScriptPath(Plain(Uuid(1))),
             cleaned_out |-> CleanedPath(Uuid(1)), clean_out |-> CleanedPath(Uuid(1)),
             final_out |-> NoPath]
    /\ disk = [q \in Paths |->
                 IF q = UploadPath(Uuid(1)) THEN <<"file", "fileA">>
                 ELSE IF q = CleanedPath(Uuid(1)) THEN <<"table", 0>>
                 ELSE IF q = ScriptPath(Plain(Uuid(1))) THEN <<"code", <<"X">>>>
                 ELSE Absent]
    /\ uploader = None
    /\ page = "master"
    /\ buttons = {"master"}
    /\ nextId = 2
    /\ attempt = 0
    /\ committed = [q \in Paths |->
                      IF q = CleanedPath(Uuid(1)) THEN <<"table", 0>> ELSE Absent]
    /\ last = Rendered("master", "render")

\* lines 99-142: get_client, then the first request
G_Call ==
    /\ gpc \in {"idle", "done"}
    /\ gfirst' = "none"
    /\ graw' = <<>>
    /\ UNCHANGED <<avars, unit>>
    /\ \E key \in BOOLEAN :
          IF get_client(key).raised
          THEN /\ gpc' = "done"
               /\ greqs' = 0
               /\ gret' = Raise("ValueError")
          ELSE /\ gpc' = "wait1"
               /\ greqs' = 1
               /\ gret' = [kind |-> "none"]

\* lines 136-156: the first response arrives
G_Reply1 ==
    /\ gpc = "wait1"
    /\ \E reply \in Replies :
          LET a == Agent2First(reply, GenFid)
          IN  /\ gpc' = a.pc
              /\ greqs' = greqs + a.sent
              /\ gfirst' = a.first
              /\ graw' = a.raw
              /\ gret' = a.ret
    /\ UNCHANGED <<avars, unit>>

\* lines 157-165: the retry response arrives
G_Reply2 ==
    /\ gpc = "wait2"
    /\ \E reply \in Replies :
          LET a == Agent2Second(reply, GenFid)
          IN  /\ gpc' = a.pc
              /\ greqs' = greqs + a.sent
              /\ graw' = a.raw
              /\ gret' = a.ret
    /\ UNCHANGED <<gfirst, avars, unit>>


\* ------------------------------------------- pages/01_upload_analyze.py
\* lines 11-32: while the uploader holds a file, every run of the script
\* cleans up the session's identifier, mints a new one and stores the file
UploadStep(s, d, up, nid) ==
    IF up = None THEN [ss |-> s, disk |-> d, nextId |-> nid]
    ELSE LET d1 == IF s.file_id # None THEN cleanup_files(d, s.file_id) ELSE d
             fid == Uuid(nid)
         IN  [ss |-> [s EXCEPT !.file_id = fid, !.src_path = UploadPath(fid),
                               !.preview_data = up],
              disk |-> Write(d1, UploadPath(fid), <<"file", up>>),
              nextId |-> nid + 1]

\* lines 38-46: Run Analysis; an exception (read_any, get_client) is shown
\* and leaves the analysis as it was
\*   [ss, event, requests]
AnalysisStep(s, d, press, key, reply) ==
    IF s.src_path # NoPath /\ press
    THEN IF ~Exists(d, s.src_path)
         THEN [ss |-> s, event |-> "error", requests |-> 0]
         ELSE LET a == agent1_analyze(read_any(d[s.src_path]), key, reply)
              IN  IF a.ret.kind = "raise"
                  THEN [ss |-> s, event |-> "error", requests |-> a.requests]
                  ELSE [ss |-> [s EXCEPT !.analysis =
                                    [of |-> s.src_path[2], val |-> a.ret.val]],
                        event |-> "success", requests |-> a.requests]
    ELSE [ss |-> s, event |-> "render", requests |-> 0]

\* one run of the page script.  The user opened the page (the uploader is
\* empty), chose a file, removed the file, or pressed Run Analysis (the
\* uploader still holds what it held).
UploadPageRun ==
    \E input \in {"open", "choose", "clear", "press"} :
    \E f \in (IF input = "choose" THEN Files ELSE {None}) :
    \E key \in (IF input = "press" THEN BOOLEAN ELSE {FALSE}) :
    \E reply \in (IF input = "press" /\ key THEN AnalysisReplies ELSE {"raises"}) :
        LET up == CASE input = "choose" -> f
                    [] input = "press" -> uploader
                    [] OTHER -> None
            u == UploadStep(ss, disk, up, nextId)
            a == AnalysisStep(u.ss, u.disk, input = "press", key, reply)
        IN  /\ input = "open" => page # "upload"
            /\ input \in {"choose", "clear", "press"} => page = "upload"
            /\ input = "clear" => uploader # None
            /\ input = "press" => "analysis" \in buttons
            /\ up # None => nextId <= MaxIds
            /\ uploader' = up
            /\ ss' = a.ss
            /\ disk' = u.disk
            /\ nextId' = u.nextId
            /\ buttons' = IF a.ss.src_path # NoPath THEN {"analysis"} ELSE {}
            /\ last' = [Rendered("upload", a.event) EXCEPT
                            !.requests = a.requests,
                            !.heard = IF a.requests = 1 THEN reply ELSE None]
            /\ page' = "upload"
            /\ UNCHANGED <<attempt, committed, gvars, unit>>

\* --------------------------------------------------- pages/clean_data.py
\* lines 8-11
CleanGuard(s) == s.src_path # NoPath /\ Truthy(s.analysis)

\* lines 19-63: the button handler; the paths are stored and success is
\* shown as soon as agent2_clean returns, an exception is shown as an error
CleanHandlerOn(s, c, p, r) ==
    IF r.ret.kind = "raise"
    THEN [ss |-> s, disk |-> r.disk, committed |-> c,
          last |-> [Ran("clean", "error", p, r.outcome, r.executed,
                        r.validated, r.requests, Absent)
                      EXCEPT !.shown = {<<"exception", r.ret.err>>}]]
    ELSE [ss |-> [s EXCEPT !.script_path = r.ret.script_path,
                           !.cleaned_out = r.ret.cleaned_path],
          disk |-> r.disk,
          committed |-> [c EXCEPT ![r.ret.cleaned_path] =
                                      r.disk[r.ret.cleaned_path]],
          last |-> Ran("clean", "success", p, r.outcome, r.executed,
                       r.validated, r.requests, Absent)]

CleanHandler(s, d, c, key, reply1, reply2, p, tag) ==
    CleanHandlerOn(s, c, p, agent2_clean(d, key, reply1, reply2, p, s.file_id, tag))

CleanPageRun ==
    \E press \in BOOLEAN :
        /\ press => (page = "clean" /\ "clean" \in buttons /\ attempt < MaxAttempts)
        /\ page' = "clean"
        /\ uploader' = None
        /\ buttons' = IF CleanGuard(ss) THEN {"clean"} ELSE {}
        /\ IF CleanGuard(ss) /\ press
           THEN \E key \in BOOLEAN :
                \E reply1 \in AskedIf(key) :
                \E reply2 \in AskedIf(key /\ Agent2First(reply1, ss.file_id).pc = "wait2") :
                \E p \in Procs \cup {NoProc} :
                \E h \in {CleanHandler(ss, disk, committed, key, reply1, reply2,
                                       p, attempt + 1)} :
                        /\ Behaves(h.last.executed, p)
                        /\ ss' = h.ss
                        /\ disk' = h.disk
                        /\ committed' = h.committed
                        /\ last' = h.last
                        /\ attempt' = attempt + 1
           ELSE /\ last' = Rendered("clean", IF CleanGuard(ss) THEN "render" ELSE "warn")
                /\ UNCHANGED <<ss, disk, committed, attempt>>
        /\ UNCHANGED <<nextId, gvars, unit>>

\* ---------------------------------------------------- pages/qa_report.py
\* lines 8-15
QAGuard(s, d) ==
    /\ s.cleaned_out # NoPath /\ Exists(d, s.cleaned_out)
    /\ s.src_path # NoPath /\ Exists(d, s.src_path)

QAPageRun ==
    \E press \in BOOLEAN :
        /\ press => (page = "qa" /\ "qa" \in buttons)
        /\ page' = "qa"
        /\ uploader' = None
        /\ buttons' = IF QAGuard(ss, disk) THEN {"qa"} ELSE {}
        /\ IF QAGuard(ss, disk) /\ press
           THEN \E key \in BOOLEAN :
                \E reply \in AskedIf(key) :
                    LET r == agent3_qa(disk, key, reply, ss.src_path, ss.cleaned_out,
                                       ss.file_id)
                    IN  /\ disk' = r.disk
                        /\ last' = IF r.ret.kind = "raise"
                                   THEN [Ran("qa", "error", NoProc, NoOutcome, <<>>,
                                             {}, r.requests, r.read)
                                           EXCEPT !.shown = {<<"exception", r.ret.err>>}]
                                   ELSE Ran("qa", "success", NoProc, NoOutcome, <<>>,
                                            {}, r.requests, r.read)
           ELSE /\ last' = Rendered("qa", IF QAGuard(ss, disk) THEN "render" ELSE "warn")
                /\ UNCHANGED disk
        /\ UNCHANGED <<ss, nextId, attempt, committed, gvars, unit>>

\* -------------------------------------------------- pages/master_agent.py
\* line 7
MasterGuard(s, d) == s.clean_out # NoPath /\ Exists(d, s.clean_out)

\* line 24
MasterCommits(o, d, final_out) == o.c = 0 /\ Exists(d, final_out)

\* a variant that runs the script once more when the first run failed
RunMasterCleaningRetry(s, d, c, key, reply, p, tag) ==
    LET a == agent4_master_clean(key, reply, s.file_id)
    IN  IF a.ret.kind = "raise"
        THEN [ss |-> s, disk |-> d, committed |-> c,
              last |-> Ran("master", "error", NoProc, NoOutcome, <<>>, {},
                           a.requests, Absent)]
        ELSE LET code == a.ret.code
                 final_out == a.ret.out_path
                 s1 == [s EXCEPT !.final_out = final_out]
                 w == write_script(d, code, WithFinal(s.file_id))
                 o == run_script(p)
                 d2 == ProcessEffect(w.disk, p, final_out, tag)
             IN  IF MasterCommits(o, d2, final_out)
                 THEN [ss |-> s1, disk |-> d2,
                       committed |-> [c EXCEPT ![final_out] = d2[final_out]],
                       last |-> Ran("master", "success", p, o, <<code>>,
                                    a.validated, a.requests, Absent)]
                 ELSE [ss |-> s1, disk |-> d2, committed |-> c,
                       last |-> Ran("master", "failed", p, o, <<code, code>>,
                                    a.validated, a.requests, Absent)]

\* lines 10-43: the button handler; a failed run shows the handler's own
\* message and e (line 40), an exception shows its text (lines 42-43)
\*   [ss, disk, committed, last]
RunMasterCleaning(s, d, c, key, reply, p, tag) ==
    LET a == agent4_master_clean(key, reply, s.file_id)
    IN  IF a.ret.kind = "raise"
        THEN [ss |-> s, disk |-> d, committed |-> c,
              last |-> [Ran("master", "error", NoProc, NoOutcome, <<>>, {},
                            a.requests, Absent)
                          EXCEPT !.shown = {<<"exception", a.ret.err>>}]]
        ELSE LET code == a.ret.code
                 final_out == a.ret.out_path
                 s1 == [s EXCEPT !.final_out = final_out]
                 w == write_script(d, code, WithFinal(s.file_id))
                 o == run_script(p)
                 d2 == ProcessEffect(w.disk, p, final_out, tag)
             IN  IF o.raised
                 THEN [ss |-> s1, disk |-> d2, committed |-> c,
                       last |-> [Ran("master", "error", p, o, <<code>>,
                                     a.validated, a.requests, Absent)
                                   EXCEPT !.shown = {<<"exception", "OSError">>}]]
                 ELSE IF MasterCommits(o, d2, final_out)
                 THEN [ss |-> s1, disk |-> d2,
                       committed |-> [c EXCEPT ![final_out] = d2[final_out]],
                       last |-> Ran("master", "success", p, o, <<code>>,
                                    a.validated, a.requests, Absent)]
                 ELSE [ss |-> s1, disk |-> d2, committed |-> c,
                       last |-> [Ran("master", "failed", p, o, <<code>>,
                                     a.validated, a.requests, Absent)
                                   EXCEPT !.shown = {<<"stderr", o.e>>}]]

MasterPageRun ==
    \E press \in BOOLEAN :
        /\ press => (page = "master" /\ "master" \in buttons /\ attempt < MaxAttempts)
        /\ page' = "master"
        /\ uploader' = None
        /\ buttons' = IF MasterGuard(ss, disk) THEN {"master"} ELSE {}
        /\ IF MasterGuard(ss, disk) /\ press
           THEN \E key \in BOOLEAN :
                \E reply \in AskedIf(key) :
                \E p \in Procs \cup {NoProc} :
                \E h \in {RunMasterCleaning(ss, disk, committed, key, reply, p,
                                            attempt + 1)} :
                        /\ Behaves(h.last.executed, p)
                        /\ ss' = h.ss
                        /\ disk' = h.disk
                        /\ committed' = h.committed
                        /\ last' = h.last
                        /\ attempt' = attempt + 1
           ELSE /\ last' = Rendered("master", IF MasterGuard(ss, disk) THEN "render"
                                              ELSE "warn")
                /\ UNCHANGED <<ss, disk, committed, attempt>>
        /\ UNCHANGED <<nextId, gvars, unit>>

\* ------------------------------------------ utils/agents.py, call by call
\* the tables agent1_analyze is called with: one column of up to MaxRows
\* rows, or several columns of up to SmallRows rows
ProfileTables ==
    UNION {TablesOf(1, n) : n \in 0..MaxRows}
        \cup UNION {TablesOf(k, n) : k \in 2..MaxCols, n \in 0..SmallRows}

\* what agent3_qa finds at a path: nothing, or a table of some shape
ShapeTables == {[c \in 1..k |-> [r \in 1..n |-> "v"]] : k \in 1..MaxCols, n \in 0..SmallRows}

QAContents == {Absent} \cup {<<"data", t>> : t \in ShapeTables}

\* the store with the given contents at the paths of GenFid
StoreWith(src, cleaned, report) ==
    [q \in Paths |-> IF q = UploadPath(GenFid) THEN src
                     ELSE IF q = CleanedPath(GenFid) THEN cleaned
                     ELSE IF q = ReportPath(GenFid) THEN report
                     ELSE Absent]

\* the texts _extract_code_from_text is called with.  Two fence tokens in a
\* row would be one run of six backticks, which the pattern can split
\* anywhere; the texts keep their fences apart, and on them the tokens give
\* the result character for character
ExtractTexts ==
    {t \in SeqsUpTo(Tokens, MaxText) :
        \A i \in 1..(Len(t) - 1) : ~(t[i] = "F" /\ t[i + 1] = "F")}

NoCall == [fn |-> "none", args |-> [key |-> TRUE],
           out |-> [ret |-> [kind |-> "none"], requests |-> 0]]

UInit == unit = NoCall

\* each function is called from a state in which no call is under way

U_Extract ==
    /\ unit = NoCall
    /\ \E text \in ExtractTexts :
          unit' = [fn |-> "_extract_code_from_text", args |-> [text |-> text],
                   out |-> [text |-> _extract_code_from_text(text)]]
    /\ UNCHANGED <<gvars, avars>>

U_Analyze ==
    /\ unit = NoCall
    /\ \E df \in ProfileTables :
       \E key \in BOOLEAN :
       \E reply \in (IF key THEN AnalysisReplies ELSE {"raises"}) :
          unit' = [fn |-> "agent1_analyze",
                   args |-> [df |-> df, key |-> key, reply |-> reply],
                   out |-> agent1_analyze(df, key, reply)]
    /\ UNCHANGED <<gvars, avars>>

U_Generate ==
    /\ unit = NoCall
    /\ \E key \in BOOLEAN :
       \E reply1 \in AskedIf(key) :
       \E reply2 \in AskedIf(key /\ Agent2First(reply1, GenFid).pc = "wait2") :
          unit' = [fn |-> "agent2_generate",
                   args |-> [key |-> key, reply1 |-> reply1, reply2 |-> reply2],
                   out |-> agent2_generate(key, reply1, reply2, GenFid)]
    /\ UNCHANGED <<gvars, avars>>

U_QA ==
    /\ unit = NoCall
    /\ \E src \in QAContents :
       \E cleaned \in QAContents :
       \E report \in {Absent, <<"report", <<"X">>>>} :
       \E key \in BOOLEAN :
       \E reply \in AskedIf(key) :
          unit' = [fn |-> "agent3_qa",
                   args |-> [key |-> key, reply |-> reply,
                             d |-> StoreWith(src, cleaned, report)],
                   out |-> agent3_qa(StoreWith(src, cleaned, report), key, reply,
                                     UploadPath(GenFid), CleanedPath(GenFid), GenFid)]
    /\ UNCHANGED <<gvars, avars>>

U_Master ==
    /\ unit = NoCall
    /\ \E key \in BOOLEAN :
       \E reply \in AskedIf(key) :
          unit' = [fn |-> "agent4_master_clean",
                   args |-> [key |-> key, reply |-> reply],
                   out |-> agent4_master_clean(key, reply, GenFid)]
    /\ UNCHANGED <<gvars, avars>>

\* the call has returned; the next one starts from nothing
U_Return ==
    /\ unit # NoCall
    /\ unit' = NoCall
    /\ UNCHANGED <<gvars, avars>>

GNext == G_Call \/ G_Reply1 \/ G_Reply2

UNext == U_Extract \/ U_Analyze \/ U_Generate \/ U_QA \/ U_Master \/ U_Return

Init == GInit /\ AInit /\ UInit

Next == UploadPageRun \/ CleanPageRun \/ QAPageRun \/ MasterPageRun

\* the application: the four page scripts, from a new session
Spec == Init /\ [][Next]_vars

InitMaster == GInit /\ AInitMaster /\ UInit

\* the pages downstream of the cleaning step
NextMaster == UploadPageRun \/ QAPageRun \/ MasterPageRun

\* the upload, QA and master pages from a session whose cleaning step has
\* committed
SpecMaster == InitMaster /\ [][NextMaster]_vars

\* agent2_generate alone, called with every service behaviour
SpecGen == Init /\ [][GNext]_vars

\* the functions of utils/agents.py, each called with every input
SpecUnits == Init /\ [][UNext]_vars

\* C1: one call of agent2_generate sends at most two generation-service
\* requests, the second only when the code extracted from the first response
\* failed the syntax check, and a call whose retry response is invalid too
\* has returned (it waits for no third response).
BoundedRetry ==
    /\ greqs <= 2
    /\ gpc = "wait1" => greqs = 1
    /\ gpc = "wait2" => greqs = 2
    /\ greqs = 2 => gfirst = "invalid"
    /\ (gpc = "done" /\ gret.kind # "raise") =>
           (gret.kind = "return" /\ gret.code = Dedent(graw))

\* a call that asked twice, got invalid code both times, and returned it
BoundedRetryWitness ==
    /\ gpc = "done"
    /\ greqs = 2
    /\ gfirst = "invalid"
    /\ gret.kind = "return"
    /\ ~AstParses(graw)
    /\ ~AstParses(gret.code)

\* C2: when the first and the retry extraction both fail the syntax check,
\* the caller is told: the call raises, or what it returns is marked invalid.
CallerCanTell(r) ==
    \/ r.kind = "raise"
    \/ ("valid" \in DOMAIN r /\ r.valid = FALSE)

SecondFailureSurfaced ==
    (gpc = "done" /\ gfirst = "invalid" /\ greqs = 2 /\ ~AstParses(graw))
        => CallerCanTell(gret)

RunScriptNeverRaises ==
    last.proc.kind # "none" =>
        /\ ~last.outcome.raised
        /\ last.proc.kind = "exit" =>
               /\ last.outcome.c = last.proc.rc
               /\ last.outcome.o = "stdout"
               /\ last.outcome.e = "stderr"
        /\ last.proc.kind = "timeout" =>
               /\ last.outcome.c # 0
               /\ last.outcome.e = "Script timed out"
        /\ last.proc.kind = "launch_error" =>
               /\ last.outcome.c # 0
               /\ last.outcome.e = "Error running script"

\* the master pass ran a script whose process could not be launched
RunScriptNeverRaisesWitness ==
    /\ last.page = "master"
    /\ last.proc.kind = "launch_error"
    /\ last.outcome.c = 1
    /\ last.event = "failed"

DownstreamReadsCommitted ==
    (last.page = "qa" /\ last.read # Absent) =>
        /\ ss.cleaned_out = CleanedPath(ss.file_id)
        /\ last.read = committed[ss.cleaned_out]

IdentifierMintedOnce ==
    [][(uploader # None /\ uploader' = uploader /\ last'.page = "upload"
          /\ last'.event \in {"success", "error"}) =>
          /\ ss'.file_id = ss.file_id
          /\ ss'.src_path = ss.src_path
          /\ \A q \in Paths : disk[q] # Absent => disk'[q] # Absent]_vars

\* C10: an attempt of the master pass hands at most one text to the executor
\* and sends one generation request, also when the execution failed.
NoExecutionRetry ==
    last.page = "master" =>
        /\ Len(last.executed) <= 1
        /\ last.requests <= 1

\* a master attempt whose execution failed: it ran once
NoExecutionRetryWitness ==
    /\ last.page = "master"
    /\ last.event = "failed"
    /\ last.outcome.c # 0
    /\ Len(last.executed) = 1
    /\ last.requests = 1

\* C11: on the analysis path a generation-service failure or a response
\* that does not parse never raises: Run Analysis ends in success with the
\* empty default result as the session's analysis, and the cleaning step is
\* open.
AnalysisDegradesGracefully ==
    (last.page = "upload" /\ last.heard \in {"raises", "not json"}) =>
        /\ last.event = "success"
        /\ ss.analysis = [of |-> ss.file_id, val |-> "default"]
        /\ Truthy(ss.analysis)
        /\ CleanGuard(ss)

\* Run Analysis was pressed and the profiling service failed
AnalysisDegradesGracefullyWitness ==
    /\ last.page = "upload"
    /\ last.heard = "raises"
    /\ last.requests = 1
    /\ last.event = "success"
    /\ ss.analysis.val = "default"

\* C12: on the transform-generation path a generation-service failure on the
\* first request is surfaced only after the one retry request has been sent.
ServiceFailureRetried ==
    (gpc = "done" /\ gret.kind = "raise" /\ gret.err = "ServiceError") => greqs = 2

\* C13: when the source file or the cleaned table is not on disk, agent3_qa
\* raises (FileNotFoundError once the client exists) before it sends a
\* request to the summarization service and before it writes a report: the
\* store is as it was.
MissingArtifactRaised ==
    (/\ unit.fn = "agent3_qa"
     /\ \/ ~Exists(unit.args.d, UploadPath(GenFid))
        \/ ~Exists(unit.args.d, CleanedPath(GenFid))) =>
        /\ unit.out.ret.kind = "raise"
        /\ unit.args.key => unit.out.ret.err = "FileNotFoundError"
        /\ unit.out.requests = 0
        /\ unit.out.disk = unit.args.d

\* agent3_qa was called with the source on disk, no cleaned table and a
\* report of an earlier call, which is still there
MissingArtifactRaisedWitness ==
    /\ unit.fn = "agent3_qa"
    /\ unit.args.key
    /\ unit.args.reply # ServiceError
    /\ Exists(unit.args.d, UploadPath(GenFid))
    /\ ~Exists(unit.args.d, CleanedPath(GenFid))
    /\ unit.out.ret.kind = "raise"
    /\ unit.out.disk[ReportPath(GenFid)] = <<"report", <<"X">>>>

\* C14: without the service credential each of agent1_analyze,
\* agent2_generate, agent3_qa and agent4_master_clean raises get_client's
\* ValueError, having sent no request and written nothing; none of them
\* turns it into a result.
ConfigurationFailsFast ==
    (/\ unit.fn \in {"agent1_analyze", "agent2_generate", "agent3_qa",
                     "agent4_master_clean"}
     /\ ~unit.args.key) =>
        /\ unit.out.ret.kind = "raise"
        /\ unit.out.ret.err = "ValueError"
        /\ unit.out.requests = 0
        /\ unit.fn = "agent3_qa" => unit.out.disk = unit.args.d

\* agent1_analyze, which catches every exception of its request, was called
\* without the credential
ConfigurationFailsFastWitness ==
    /\ unit.fn = "agent1_analyze"
    /\ ~unit.args.key
    /\ unit.out.ret.kind = "raise"
    /\ unit.out.requests = 0

QAMetrics ==
    (unit.fn = "agent3_qa" /\ unit.out.requests = 1) =>
        LET source == unit.args.d[UploadPath(GenFid)][2]
            cleaned == unit.args.d[CleanedPath(GenFid)][2]
            delta == unit.out.ctx.delta
        IN  /\ delta.row_delta = Len(cleaned[1]) - Len(source[1])
            /\ delta.col_delta = Len(cleaned) - Len(source)
            /\ (Len(cleaned[1]) = Len(source[1]) /\ Len(cleaned) = Len(source)) =>
                   (delta.row_delta = 0 /\ delta.col_delta = 0)

\* a report was made for a cleaned table with one row less and one column
\* more than the source
QAMetricsWitness ==
    /\ unit.fn = "agent3_qa"
    /\ unit.out.ret.kind = "return"
    /\ unit.out.ctx.before = [rows |-> 2, cols |-> 1]
    /\ unit.out.ctx.after = [rows |-> 1, cols |-> 2]
    /\ unit.out.ctx.delta = [row_delta |-> -1, col_delta |-> 1]

\* C17: for every text that is not empty, _extract_code_from_text returns
\* (it does not raise) and what it returns is not empty.
ExtractionTotality ==
    (unit.fn = "_extract_code_from_text" /\ unit.args.text # <<>>) =>
        unit.out.text # <<>>

\* C18: if the text contains a fenced block (a fence and the next fence
\* after it), the result is the trimmed content of the first block, even
\* when a statement-start line comes before it; otherwise it is the trimmed
\* text from the first statement-start line on; otherwise the trimmed text.
ExtractionOrder ==
    unit.fn = "_extract_code_from_text" =>
        LET t == unit.args.text
            Closing(i) == {j \in (i + 1)..Len(t) : t[j] = "F"}
            opening == {i \in 1..Len(t) : t[i] = "F" /\ Closing(i) # {}}
            FirstNonSpace(b) == Min({j \in b..(Len(t) + 1) : j > Len(t) \/ t[j] # "S"})
            statements == {b \in 1..Len(t) :
                              /\ (b = 1 \/ t[b - 1] = "N")
                              /\ FirstNonSpace(b) <= Len(t)
                              /\ t[FirstNonSpace(b)] = "K"}
        IN  unit.out.text =
                IF opening # {}
                THEN Strip(SubSeq(t, Min(opening) + 1, Min(Closing(Min(opening))) - 1))
                ELSE IF statements # {}
                THEN Strip(SubSeq(t, Min(statements), Len(t)))
                ELSE Strip(t)

\* C19: every Column Profile agent1_analyze builds has nulls + non_nulls
\* equal to the row count of the table, and at most 10 sample values; there
\* is one profile per column.
ProfileInvariant ==
    (unit.fn = "agent1_analyze" /\ unit.args.key) =>
        /\ Len(unit.out.summary) = Len(unit.args.df)
        /\ \A c \in 1..Len(unit.args.df) :
              /\ unit.out.summary[c].nulls + unit.out.summary[c].non_nulls
                     = Len(unit.args.df[1])
              /\ Len(unit.out.summary[c].sample_values) <= 10

\* a column of twelve rows, one of them missing, was profiled: eleven
\* values, ten of them sampled
ProfileInvariantWitness ==
    /\ unit.fn = "agent1_analyze"
    /\ unit.args.key
    /\ Len(unit.args.df[1]) = 12
    /\ unit.out.summary[1].nulls = 1
    /\ unit.out.summary[1].non_nulls = 11
    /\ Len(unit.out.summary[1].sample_values) = 10

\* C20: once the cleaning step has recorded the cleaned table in the session
\* and the table is on disk, the master page offers Run Master Cleaning and
\* not the "Run Cleaning first" warning.
MasterReachable ==
    (/\ page = "master"
     /\ ss.cleaned_out # NoPath
     /\ Exists(disk, ss.cleaned_out)) =>
        ("master" \in buttons /\ last.event # "warn")

\* C21: whenever the cleaning action is offered, the analysis in the session
\* was computed from the file of the current file_id / src_path, and
\* whenever the QA action is offered, the cleaned path in the session is
\* that of the current file_id: nothing of a superseded identifier is used
\* with the new source file.
SessionConsistency ==
    /\ (page = "clean" /\ "clean" \in buttons) =>
           (ss.analysis.of = ss.file_id /\ ss.src_path = UploadPath(ss.file_id))
    /\ (page = "qa" /\ "qa" \in buttons) =>
           (ss.cleaned_out = CleanedPath(ss.file_id)
               /\ ss.src_path = UploadPath(ss.file_id))
====
